---- MODULE Spec2Model ----
(***************************************************************************)
(* Model of the AGC configuration library (agc.py) and of the ordered      *)
(* multi-counter of the general purpose library (jeep.py).                 *)
(*                                                                         *)
(* A text line is a sequence of tokens: identifiers and value words are    *)
(* one token each, every punctuation or white-space character is a token   *)
(* of its own.  The three regular expressions of agc.py are matched on     *)
(* these sequences.                                                        *)
(***************************************************************************)
EXTENDS Integers, Sequences, FiniteSets, TLC

VARIABLES
  agcLineList,     \* the caller's line list, updated in place by updateAgcLineListWithDict
  pc,              \* position of the AGC caller: loaded, dict, struct, ready, updated
  diction,         \* result of makeGcauCfgDictFromAgc
  structuralList,  \* result of makeGcauCfgStructureListFromAgc
  agcDictionary,   \* mapping handed to updateAgcLineListWithDict
  bCompleteness,   \* strictness flag of the last updateAgcLineListWithDict call
  raised,          \* exception the last updateAgcLineListWithDict call ended with
  before,          \* the line list as it was when the last call was entered
  nCalls,          \* number of updateAgcLineListWithDict calls made
  gcauCfgDict,     \* mapping handed to makeListOfEnabledEvents
  epc,             \* position inside makeListOfEnabledEvents
  mask,            \* makeListOfEnabledEvents: local mask
  n,               \* makeListOfEnabledEvents: local n
  list,            \* makeListOfEnabledEvents: local list
  evRaised,        \* exception makeListOfEnabledEvents ended with
  orderedCounter,  \* the list handed to incrementInOrderedMultiCounter
  history,         \* the incrementTuple arguments passed so far, in call order
  prevCounter,     \* orderedCounter as it was when the last call was entered
  kind             \* type of the counts: "int" (numbers) or "str" (strings)

vars == <<agcLineList, pc, diction, structuralList, agcDictionary, bCompleteness,
          raised, before, nCalls, gcauCfgDict, epc, mask, n, list, evRaised,
          orderedCounter, history, prevCounter, kind>>

agcVars == <<agcLineList, pc, diction, structuralList, agcDictionary, bCompleteness,
             raised, before, nCalls>>

evVars == <<gcauCfgDict, epc, mask, n, list, evRaised>>

ctrVars == <<orderedCounter, history, prevCounter, kind>>

(***************************************************************************)
(* Bounds of the model.                                                    *)
(***************************************************************************)
MaxLines == 4

MaxCalls == 2

MaxHexLen == 2

MaxIncrements == 4

Min(S) == CHOOSE x \in S : \A y \in S : x <= y

Max(S) == CHOOSE x \in S : \A y \in S : x >= y

(***************************************************************************)
(* Lines and the three regular expressions.                                *)
(***************************************************************************)
WhiteSpace == {" ", "\t", "\r", "\n"}

ObjectNames == {"COMMISS", "EVT_1", "SYSVAR"}

AttributeNames == {"RelayNb", "Value", "!Text", "EventEnable", "SuperUserMenus"}

\* index of the first token at or after k that \s* does not consume
RECURSIVE SkipSpace(_, _)
SkipSpace(line, k) ==
  IF k > Len(line) \/ line[k] \notin WhiteSpace THEN k ELSE SkipSpace(line, k + 1)

\* index of the last quote at or before k, 0 when there is none
RECURSIVE LastQuote(_, _)
LastQuote(line, k) ==
  IF k = 0 \/ line[k] = "\"" THEN k ELSE LastQuote(line, k - 1)

\* ^\$GCAUConfigurationData\s*=\s*"<word>"\s*$
MatchMarker(line, word) ==
  /\ Len(line) >= 1
  /\ line[1] = "$GCAUConfigurationData"
  /\ LET p == SkipSpace(line, 2) IN
       /\ p <= Len(line)
       /\ line[p] = "="
       /\ LET q == SkipSpace(line, p + 1) IN
            /\ q + 2 <= Len(line)
            /\ line[q] = "\""
            /\ line[q + 1] = word
            /\ line[q + 2] = "\""
            /\ SkipSpace(line, q + 3) = Len(line) + 1

RE_COMPILED_CFG_START(line) == MatchMarker(line, "Start")

RE_COMPILED_CFG_END(line) == MatchMarker(line, "End")

NoMatch == [ok |-> FALSE, obj |-> "", attr |-> "", val |-> <<>>]

\* ^([A-Z][A-Z0-9_]*)\.(!?\w+)\s*=\s*"(.*)"\s*$ : the groups of the match.
\* (.*) is greedy and stops at no quote, so the closing quote is the last
\* quote of the line; "." matches no line feed.
RE_COMPILED_CFG_ITEM(line) ==
  IF /\ Len(line) >= 3
     /\ line[1] \in ObjectNames
     /\ line[2] = "."
     /\ line[3] \in AttributeNames
  THEN LET p == SkipSpace(line, 4) IN
       IF p <= Len(line) /\ line[p] = "="
       THEN LET q == SkipSpace(line, p + 1) IN
            IF q <= Len(line) /\ line[q] = "\""
            THEN LET r == LastQuote(line, Len(line)) IN
                 IF /\ r > q
                    /\ \A j \in (q + 1)..(r - 1) : line[j] # "\n"
                    /\ SkipSpace(line, r + 1) = Len(line) + 1
                 THEN [ok |-> TRUE, obj |-> line[1], attr |-> line[3],
                       val |-> SubSeq(line, q + 1, r - 1)]
                 ELSE NoMatch
            ELSE NoMatch
       ELSE NoMatch
  ELSE NoMatch

\* The lines an AGC file is drawn from (after AGC_SAMPLE and the terminators
\* the unit tests append): the two markers, assignments with each terminator
\* style, and a malformed line.
LineStart == <<"$GCAUConfigurationData", " ", "=", " ", "\"", "Start", "\"", "\n">>

LineEnd == <<"$GCAUConfigurationData", "=", " ", "\"", "End", "\"", "\r", "\n">>

LineRelayNb0 == <<"COMMISS", ".", "RelayNb", " ", "=", " ", "\"", "0", "\"", "\n">>

LineRelayNb32 == <<"COMMISS", ".", "RelayNb", "=", "\"", "32", "\"", "\r", "\n">>

LineText == <<"COMMISS", ".", "!Text", " ", "=", " ", "\"", "HIGH", "\"", "MAINS", "\"", "\r">>

LineValue == <<"EVT_1", ".", "Value", " ", "=", " ", "\"", "2530", "\"">>

LineMalformed == <<"COMMISS", ".", "RelayNb", " ", "=", " ", "\"", "0", "\n">>

AgcLines ==
  {LineStart, LineEnd, LineRelayNb0, LineRelayNb32, LineText, LineValue, LineMalformed}

NewValue == <<"9999">>

LineLists == UNION {[1..k -> AgcLines] : k \in 0..MaxLines}

(***************************************************************************)
(* Two-level mappings: object -> (attribute -> value).                     *)
(***************************************************************************)
EmptyDict == [o \in {} |-> o]

DictSet(d, o, a, v) ==
  LET inner == IF o \in DOMAIN d THEN d[o] ELSE EmptyDict
  IN  [x \in DOMAIN d \cup {o} |->
         IF x = o
         THEN [y \in DOMAIN inner \cup {a} |-> IF y = a THEN v ELSE inner[y]]
         ELSE d[x]]

DictDelObj(d, o) == [x \in DOMAIN d \ {o} |-> d[x]]

DictDelAttr(d, o, a) ==
  [x \in DOMAIN d |-> IF x = o THEN [y \in DOMAIN d[o] \ {a} |-> d[o][y]] ELSE d[x]]

(***************************************************************************)
(* makeGcauCfgDictFromAgc                                                  *)
(***************************************************************************)
\* variant of the loop body that stores only the first value of a key
DictLoopBody_KeepFirst(st, eachString) ==
  IF RE_COMPILED_CFG_START(eachString) THEN [st EXCEPT !.withinCfgData = TRUE]
  ELSE IF RE_COMPILED_CFG_END(eachString) THEN [st EXCEPT !.withinCfgData = FALSE]
  ELSE IF st.withinCfgData
  THEN LET p == RE_COMPILED_CFG_ITEM(eachString) IN
       IF p.ok /\ ~(p.obj \in DOMAIN st.diction /\ p.attr \in DOMAIN st.diction[p.obj])
       THEN [st EXCEPT !.diction = DictSet(st.diction, p.obj, p.attr, p.val)]
       ELSE st
  ELSE st

\* variant of the loop body in which the end marker does not close the region
DictLoopBody_EndIgnored(st, eachString) ==
  IF RE_COMPILED_CFG_START(eachString) THEN [st EXCEPT !.withinCfgData = TRUE]
  ELSE IF st.withinCfgData
  THEN LET p == RE_COMPILED_CFG_ITEM(eachString) IN
       IF p.ok
       THEN [st EXCEPT !.diction = DictSet(st.diction, p.obj, p.attr, p.val)]
       ELSE st
  ELSE st

\* one iteration of the for loop; st = [diction, withinCfgData]
DictLoopBody(st, eachString) ==
  IF RE_COMPILED_CFG_START(eachString) THEN [st EXCEPT !.withinCfgData = TRUE]
  ELSE IF RE_COMPILED_CFG_END(eachString) THEN [st EXCEPT !.withinCfgData = FALSE]
  ELSE IF st.withinCfgData
  THEN LET p == RE_COMPILED_CFG_ITEM(eachString) IN
       IF p.ok
       THEN [st EXCEPT !.diction = DictSet(st.diction, p.obj, p.attr, p.val)]
       ELSE st
  ELSE st

RECURSIVE DictLoop(_, _, _)
DictLoop(st, lineList, k) ==
  IF k > Len(lineList) THEN st
  ELSE DictLoop(DictLoopBody(st, lineList[k]), lineList, k + 1)

makeGcauCfgDictFromAgc(lineList) ==
  DictLoop([diction |-> EmptyDict, withinCfgData |-> FALSE], lineList, 1).diction

(***************************************************************************)
(* makeGcauCfgStructureListFromAgc                                         *)
(***************************************************************************)
\* variant of the loop body that opens a new entry for every assignment
StructLoopBody_AlwaysNew(st, eachString) ==
  IF RE_COMPILED_CFG_START(eachString) THEN [st EXCEPT !.withinCfgData = TRUE]
  ELSE IF RE_COMPILED_CFG_END(eachString) THEN [st EXCEPT !.withinCfgData = FALSE]
  ELSE IF st.withinCfgData
  THEN LET p == RE_COMPILED_CFG_ITEM(eachString) IN
       IF p.ok
       THEN [st EXCEPT !.currentObj = p.obj,
                       !.structuralList = Append(@, <<p.obj, <<p.attr>>>>)]
       ELSE st
  ELSE st

\* one iteration of the for loop; st = [structuralList, currentObj, withinCfgData]
StructLoopBody(st, eachString) ==
  IF RE_COMPILED_CFG_START(eachString) THEN [st EXCEPT !.withinCfgData = TRUE]
  ELSE IF RE_COMPILED_CFG_END(eachString) THEN [st EXCEPT !.withinCfgData = FALSE]
  ELSE IF st.withinCfgData
  THEN LET p == RE_COMPILED_CFG_ITEM(eachString) IN
       IF p.ok
       THEN IF st.currentObj # p.obj
            THEN [st EXCEPT !.currentObj = p.obj,
                            !.structuralList = Append(@, <<p.obj, <<p.attr>>>>)]
            ELSE [st EXCEPT !.structuralList[Len(st.structuralList)][2] =
                              Append(@, p.attr)]
       ELSE st
  ELSE st

RECURSIVE StructLoop(_, _, _)
StructLoop(st, lineList, k) ==
  IF k > Len(lineList) THEN st
  ELSE StructLoop(StructLoopBody(st, lineList[k]), lineList, k + 1)

makeGcauCfgStructureListFromAgc(lineList) ==
  StructLoop([structuralList |-> <<>>, currentObj |-> "!!!none!!!",
              withinCfgData |-> FALSE], lineList, 1).structuralList

(***************************************************************************)
(* Raising: every raise statement of agc.py builds its message with        *)
(* jeep.defGetMyName(), and the message is evaluated before the exception  *)
(* is constructed.  The names module jeep binds are listed below; it       *)
(* binds no defGetMyName, so the attribute lookup on the module raises     *)
(* AttributeError and that is what leaves the raise statement.             *)
(***************************************************************************)
JeepAttributes ==
  {"glob", "os", "unittest", "makeFilenameList", "subDirList",
   "incrementInOrderedMultiCounter", "TestJeep"}

RaiseWithMyName(exception) ==
  IF "defGetMyName" \in JeepAttributes THEN exception ELSE "AttributeError"

(***************************************************************************)
(* makeGcauAGCLineFromDict                                                 *)
(***************************************************************************)
\* variant that ends the line with carriage return and line feed
makeGcauAGCLineFromDict_CrLf(dictio, objectName, attributeName) ==
  IF objectName \notin DOMAIN dictio
  THEN [raised |-> RaiseWithMyName("AgcObjException"), string |-> <<>>]
  ELSE IF attributeName \notin DOMAIN dictio[objectName]
  THEN [raised |-> RaiseWithMyName("AgcAttrException"), string |-> <<>>]
  ELSE [raised |-> "none",
        string |-> <<objectName, ".", attributeName, " ", "=", " ", "\"">>
                   \o dictio[objectName][attributeName] \o <<"\"", "\r", "\n">>]

makeGcauAGCLineFromDict(dictio, objectName, attributeName) ==
  IF objectName \notin DOMAIN dictio
  THEN [raised |-> RaiseWithMyName("AgcObjException"), string |-> <<>>]
  ELSE IF attributeName \notin DOMAIN dictio[objectName]
  THEN [raised |-> RaiseWithMyName("AgcAttrException"), string |-> <<>>]
  ELSE [raised |-> "none",
        string |-> <<objectName, ".", attributeName, " ", "=", " ", "\"">>
                   \o dictio[objectName][attributeName] \o <<"\"", "\n">>]

(***************************************************************************)
(* updateAgcLineListWithDict                                               *)
(***************************************************************************)
\* variant of the loop body that rewrites assignments outside the region too
UpdateLoopBody_Ungated(st, index, dictio, strict) ==
  LET agcLine == st.agcLineList[index] IN
  IF RE_COMPILED_CFG_START(agcLine) THEN [st EXCEPT !.withinCfgData = TRUE]
  ELSE IF RE_COMPILED_CFG_END(agcLine) THEN [st EXCEPT !.withinCfgData = FALSE]
  ELSE LET p == RE_COMPILED_CFG_ITEM(agcLine) IN
       IF p.ok
       THEN LET r == makeGcauAGCLineFromDict(dictio, p.obj, p.attr) IN
            IF r.raised = "none"
            THEN [st EXCEPT !.agcLineList[index] = r.string]
            ELSE IF r.raised \in {"AgcObjException", "AgcAttrException"}
            THEN IF strict THEN [st EXCEPT !.raised = r.raised] ELSE st
            ELSE [st EXCEPT !.raised = r.raised]
       ELSE st

\* one iteration of the for loop; st = [agcLineList, withinCfgData, raised].
\* The except clause catches AgcObjException and AgcAttrException only.
UpdateLoopBody(st, index, dictio, strict) ==
  LET agcLine == st.agcLineList[index] IN
  IF RE_COMPILED_CFG_START(agcLine) THEN [st EXCEPT !.withinCfgData = TRUE]
  ELSE IF RE_COMPILED_CFG_END(agcLine) THEN [st EXCEPT !.withinCfgData = FALSE]
  ELSE IF st.withinCfgData
  THEN LET p == RE_COMPILED_CFG_ITEM(agcLine) IN
       IF p.ok
       THEN LET r == makeGcauAGCLineFromDict(dictio, p.obj, p.attr) IN
            IF r.raised = "none"
            THEN [st EXCEPT !.agcLineList[index] = r.string]
            ELSE IF r.raised \in {"AgcObjException", "AgcAttrException"}
            THEN IF strict THEN [st EXCEPT !.raised = r.raised] ELSE st
            ELSE [st EXCEPT !.raised = r.raised]
       ELSE st
  ELSE st

\* the for loop: a raise leaves it at once
RECURSIVE UpdateLoop(_, _, _, _)
UpdateLoop(st, index, dictio, strict) ==
  IF index > Len(st.agcLineList) \/ st.raised # "none" THEN st
  ELSE UpdateLoop(UpdateLoopBody(st, index, dictio, strict), index + 1, dictio, strict)

updateAgcLineListWithDict(lineList, dictio, strict) ==
  UpdateLoop([agcLineList |-> lineList, withinCfgData |-> FALSE, raised |-> "none"],
             1, dictio, strict)

(***************************************************************************)
(* The caller of the AGC functions (after TestAgc): build the mapping and  *)
(* the listing from the lines, edit the mapping, update the lines.         *)
(***************************************************************************)
\* the mapping as the caller may hand it over: unchanged, an object deleted,
\* an attribute deleted, or a value replaced
EditedDicts(d) ==
  {d}
  \cup {DictDelObj(d, o) : o \in DOMAIN d}
  \cup UNION {{DictDelAttr(d, o, a) : a \in DOMAIN d[o]} : o \in DOMAIN d}
  \cup UNION {{DictSet(d, o, a, NewValue) : a \in DOMAIN d[o]} : o \in DOMAIN d}

IdleAgc ==
  /\ agcLineList = <<>>
  /\ pc = "idle"
  /\ diction = EmptyDict
  /\ structuralList = <<>>
  /\ agcDictionary = EmptyDict
  /\ bCompleteness = FALSE
  /\ raised = "none"
  /\ before = <<>>
  /\ nCalls = 0

IdleEvents ==
  /\ gcauCfgDict = EmptyDict
  /\ epc = "idle"
  /\ mask = 0
  /\ n = 0
  /\ list = <<>>
  /\ evRaised = "none"

IdleCounter ==
  /\ orderedCounter = <<>>
  /\ history = <<>>
  /\ prevCounter = <<>>
  /\ kind = "idle"

Init ==
  /\ agcLineList \in LineLists
  /\ pc = "loaded"
  /\ diction = EmptyDict
  /\ structuralList = <<>>
  /\ agcDictionary = EmptyDict
  /\ bCompleteness = FALSE
  /\ raised = "none"
  /\ before = agcLineList
  /\ nCalls = 0
  /\ IdleEvents
  /\ IdleCounter

BuildDict ==
  /\ pc = "loaded"
  /\ diction' = makeGcauCfgDictFromAgc(agcLineList)
  /\ pc' = "dict"
  /\ UNCHANGED <<agcLineList, structuralList, agcDictionary, bCompleteness, raised,
                 before, nCalls, evVars, ctrVars>>

BuildStruct ==
  /\ pc = "dict"
  /\ structuralList' = makeGcauCfgStructureListFromAgc(agcLineList)
  /\ pc' = "struct"
  /\ UNCHANGED <<agcLineList, diction, agcDictionary, bCompleteness, raised,
                 before, nCalls, evVars, ctrVars>>

EditDict ==
  /\ pc = "struct"
  /\ agcDictionary' \in EditedDicts(diction)
  /\ pc' = "ready"
  /\ UNCHANGED <<agcLineList, diction, structuralList, bCompleteness, raised,
                 before, nCalls, evVars, ctrVars>>

Update ==
  /\ pc \in {"ready", "updated"}
  /\ nCalls < MaxCalls
  /\ \E strict \in BOOLEAN :
       LET res == updateAgcLineListWithDict(agcLineList, agcDictionary, strict) IN
         /\ agcLineList' = res.agcLineList
         /\ raised' = res.raised
         /\ bCompleteness' = strict
  /\ before' = agcLineList
  /\ nCalls' = nCalls + 1
  /\ pc' = "updated"
  /\ UNCHANGED <<diction, structuralList, agcDictionary, evVars, ctrVars>>

Next == BuildDict \/ BuildStruct \/ EditDict \/ Update

Spec == Init /\ [][Next]_vars

(***************************************************************************)
(* makeListOfEnabledEvents                                                 *)
(***************************************************************************)
OBJ_NAME == "SYSVAR"

OBJ_ATTR == "EventEnable"

HexDigits == <<"0", "1", "2", "3", "4", "5", "6", "7", "8", "9",
               "A", "B", "C", "D", "E", "F">>

IsHexDigit(c) == \E d \in 1..Len(HexDigits) : HexDigits[d] = c

DigitValue(c) == (CHOOSE d \in 1..Len(HexDigits) : HexDigits[d] = c) - 1

RECURSIVE DigitsValue(_, _)
DigitsValue(text, acc) ==
  IF text = <<>> THEN acc ELSE DigitsValue(Tail(text), acc * 16 + DigitValue(Head(text)))

\* int(text, 16): an optional sign, then one or more hexadecimal digits;
\* anything else is a ValueError
ParseHex(text) ==
  LET signed == text # <<>> /\ Head(text) \in {"-", "+"}
      digits == IF signed THEN Tail(text) ELSE text
  IN  IF digits = <<>> \/ \E j \in 1..Len(digits) : ~IsHexDigit(digits[j])
      THEN [ok |-> FALSE, value |-> 0]
      ELSE [ok |-> TRUE,
            value |-> IF signed /\ Head(text) = "-"
                      THEN 0 - DigitsValue(digits, 0) ELSE DigitsValue(digits, 0)]

\* variant of the loop body that tests the bit after the shift
EventsLoopBody_ShiftFirst(st) ==
  [list |-> IF (st.mask \div 2) % 2 = 1 THEN Append(st.list, st.n) ELSE st.list,
   mask |-> st.mask \div 2,
   n    |-> st.n + 1]

\* one iteration of the while loop; st = [list, mask, n].
\* mask >> 1 on an unbounded integer is the floor of mask / 2.
EventsLoopBody(st) ==
  [list |-> IF st.mask % 2 = 1 THEN Append(st.list, st.n) ELSE st.list,
   mask |-> st.mask \div 2,
   n    |-> st.n + 1]

\* the loop of a mask below 16^MaxHexLen ends within 4 * MaxHexLen
\* iterations; the model follows any loop two iterations further
MaxIterations == 4 * MaxHexLen + 2

HexTexts == UNION {[1..k -> {HexDigits[d] : d \in 1..Len(HexDigits)}] : k \in 0..MaxHexLen}

EventEnableTexts == HexTexts \cup {<<"-">> \o t : t \in HexTexts}

EventEnableLine(text) ==
  <<"SYSVAR", ".", "EventEnable", " ", "=", " ", "\"">> \o text \o <<"\"", "\r", "\n">>

LineSuperUserMenus ==
  <<"SYSVAR", ".", "SuperUserMenus", " ", "=", " ", "\"", "2007", "\"", "\r">>

\* files with no SYSVAR, with SYSVAR but no EventEnable, and with an EventEnable
EventLineLists ==
  {<<LineStart, LineValue, LineEnd>>, <<LineStart, LineSuperUserMenus, LineEnd>>}
  \cup {<<LineStart, LineSuperUserMenus, EventEnableLine(t), LineEnd>> :
          t \in EventEnableTexts}

InitEvents ==
  /\ gcauCfgDict \in {makeGcauCfgDictFromAgc(ls) : ls \in EventLineLists}
  /\ epc = "call"
  /\ mask = 0
  /\ n = 0
  /\ list = <<>>
  /\ evRaised = "none"
  /\ IdleAgc
  /\ IdleCounter

\* lines 83-92: the lookups, the parse and the start of the loop
EventsEnter ==
  /\ epc = "call"
  /\ IF OBJ_NAME \notin DOMAIN gcauCfgDict
     THEN /\ evRaised' = RaiseWithMyName("AgcObjException")
          /\ epc' = "raised"
          /\ UNCHANGED <<mask, n>>
     ELSE IF OBJ_ATTR \notin DOMAIN gcauCfgDict[OBJ_NAME]
     THEN /\ evRaised' = RaiseWithMyName("AgcAttrException")
          /\ epc' = "raised"
          /\ UNCHANGED <<mask, n>>
     ELSE LET parsed == ParseHex(gcauCfgDict[OBJ_NAME][OBJ_ATTR]) IN
          IF ~parsed.ok
          THEN /\ evRaised' = "ValueError"
               /\ epc' = "raised"
               /\ UNCHANGED <<mask, n>>
          ELSE /\ mask' = parsed.value
               /\ n' = 1
               /\ epc' = "loop"
               /\ UNCHANGED evRaised
  /\ UNCHANGED <<gcauCfgDict, list, agcVars, ctrVars>>

\* lines 93-97: one iteration of "while mask != 0"
EventsLoop ==
  /\ epc = "loop"
  /\ mask # 0
  /\ n <= MaxIterations
  /\ LET st == EventsLoopBody([list |-> list, mask |-> mask, n |-> n]) IN
       /\ list' = st.list
       /\ mask' = st.mask
       /\ n' = st.n
  /\ UNCHANGED <<gcauCfgDict, epc, evRaised, agcVars, ctrVars>>

\* line 101: the loop is left with mask = 0
EventsReturn ==
  /\ epc = "loop"
  /\ mask = 0
  /\ epc' = "done"
  /\ UNCHANGED <<gcauCfgDict, mask, n, list, evRaised, agcVars, ctrVars>>

NextEvents == EventsEnter \/ EventsLoop \/ EventsReturn

SpecEvents == InitEvents /\ [][NextEvents]_vars

(***************************************************************************)
(* incrementInOrderedMultiCounter (jeep.py)                                *)
(***************************************************************************)
\* identities and increments after TestJeep; in the run with string counts
\* an identity stands for a one-letter string, ordered as its code point
Identities == {1, 3, 4}

IntIncrements == {5, 0 - 4}

StrIncrements == {<<"C">>, <<"K">>}

\* COUNT+INCREMENT: the sum of numbers, the concatenation of strings
Add(count, increment) == IF kind = "int" THEN count + increment ELSE count \o increment

InsertAt(s, i, e) == SubSeq(s, 1, i - 1) \o <<e>> \o SubSeq(s, i, Len(s))

\* variant of the scan that inserts the new entry behind the first greater one
RECURSIVE CounterScan_InsertAfter(_, _, _)
CounterScan_InsertAfter(oc, incrementTuple, i) ==
  IF i > Len(oc) THEN Append(oc, incrementTuple)
  ELSE IF incrementTuple[1] = oc[i][1]
  THEN [oc EXCEPT ![i] = <<incrementTuple[1], Add(oc[i][2], incrementTuple[2])>>]
  ELSE IF incrementTuple[1] < oc[i][1]
  THEN InsertAt(oc, i + 1, incrementTuple)
  ELSE CounterScan_InsertAfter(oc, incrementTuple, i + 1)

\* the while loop from index i (one-based here), and the append after it
RECURSIVE CounterScan(_, _, _)
CounterScan(oc, incrementTuple, i) ==
  IF i > Len(oc) THEN Append(oc, incrementTuple)
  ELSE IF incrementTuple[1] = oc[i][1]
  THEN [oc EXCEPT ![i] = <<incrementTuple[1], Add(oc[i][2], incrementTuple[2])>>]
  ELSE IF incrementTuple[1] < oc[i][1]
  THEN InsertAt(oc, i, incrementTuple)
  ELSE CounterScan(oc, incrementTuple, i + 1)

incrementInOrderedMultiCounter(oc, incrementTuple) == CounterScan(oc, incrementTuple, 1)

InitCounter ==
  /\ orderedCounter = <<>>
  /\ history = <<>>
  /\ prevCounter = <<>>
  /\ kind \in {"int", "str"}
  /\ IdleAgc
  /\ IdleEvents

Increment ==
  /\ Len(history) < MaxIncrements
  /\ \E ident \in Identities :
       \E increment \in (IF kind = "int" THEN IntIncrements ELSE StrIncrements) :
         /\ orderedCounter' =
              incrementInOrderedMultiCounter(orderedCounter, <<ident, increment>>)
         /\ history' = Append(history, <<ident, increment>>)
  /\ prevCounter' = orderedCounter
  /\ UNCHANGED <<kind, agcVars, evVars>>

NextCounter == Increment

SpecCounter == InitCounter /\ [][NextCounter]_vars

(***************************************************************************)
(* Vocabulary of the properties.                                           *)
(***************************************************************************)
\* what each line of ls is: a start marker, an end marker, an assignment
Scan(ls) ==
  [j \in 1..Len(ls) |->
     [start |-> RE_COMPILED_CFG_START(ls[j]),
      end   |-> RE_COMPILED_CFG_END(ls[j]),
      item  |-> RE_COMPILED_CFG_ITEM(ls[j])]]

IsMarker(sc, j) == sc[j].start \/ sc[j].end

\* line j is an assignment line
IsAssignment(sc, j) == ~IsMarker(sc, j) /\ sc[j].item.ok

\* the most recent marker line before line j is a start marker
InRegion(sc, j) ==
  LET markers == {k \in 1..(j - 1) : IsMarker(sc, k)}
  IN  markers # {} /\ sc[Max(markers)].start

InRegionAssignments(sc) == {j \in DOMAIN sc : IsAssignment(sc, j) /\ InRegion(sc, j)}

OutOfRegionAssignments(sc) == {j \in DOMAIN sc : IsAssignment(sc, j) /\ ~InRegion(sc, j)}

ObjOf(sc, j) == sc[j].item.obj

AttrOf(sc, j) == sc[j].item.attr

ValOf(sc, j) == sc[j].item.val

HasKey(d, o, a) == o \in DOMAIN d /\ a \in DOMAIN d[o]

\* the mapping has the key of assignment line j
Covers(d, sc, j) == HasKey(d, ObjOf(sc, j), AttrOf(sc, j))

DictKeys(d) == UNION {{<<o, a>> : a \in DOMAIN d[o]} : o \in DOMAIN d}

\* OBJECT.attribute = "value" followed by a single line feed
CanonicalLine(o, a, v) == <<o, ".", a, " ", "=", " ", "\"">> \o v \o <<"\"", "\n">>

\* the canonical line of assignment line j with the value the mapping holds
RewrittenLine(d, sc, j) ==
  CanonicalLine(ObjOf(sc, j), AttrOf(sc, j), d[ObjOf(sc, j)][AttrOf(sc, j)])

\* the (object, attribute) pairs of a listing, entry after entry
RECURSIVE Flatten(_)
Flatten(sl) ==
  IF sl = <<>> THEN <<>>
  ELSE [k \in 1..Len(sl[1][2]) |-> <<sl[1][1], sl[1][2][k]>>] \o Flatten(Tail(sl))

\* the (object, attribute) pairs of the in-region assignment lines, in line order
RECURSIVE RegionPairs(_, _)
RegionPairs(sc, j) ==
  IF j > Len(sc) THEN <<>>
  ELSE IF IsAssignment(sc, j) /\ InRegion(sc, j)
  THEN <<<<ObjOf(sc, j), AttrOf(sc, j)>>>> \o RegionPairs(sc, j + 1)
  ELSE RegionPairs(sc, j + 1)

\* the value of the last in-region assignment line with key (o, a)
LastValue(sc, o, a) ==
  ValOf(sc, Max({j \in InRegionAssignments(sc) : ObjOf(sc, j) = o /\ AttrOf(sc, j) = a}))

Range(s) == {s[k] : k \in 1..Len(s)}

\* both results are built and the lines are still the ones they were built from
Built == pc \in {"struct", "ready"}

\* the in-region assignment lines whose key the mapping lacks
MissingLines(d, sc) == {j \in InRegionAssignments(sc) : ~Covers(d, sc, j)}

(***************************************************************************)
(* C1 - Region exclusivity: an assignment line contributes to the mapping  *)
(* and to the listing only when the most recent marker before it is a      *)
(* start marker.  Every key and value of the mapping comes from an         *)
(* in-region assignment line, and the listing holds one attribute per      *)
(* in-region assignment line, each from such a line.                       *)
(***************************************************************************)
C1_RegionExclusivity ==
  Built =>
    LET sc  == Scan(agcLineList)
        inR == InRegionAssignments(sc)
        fl  == Flatten(structuralList)
    IN  /\ \A o \in DOMAIN diction : \A a \in DOMAIN diction[o] :
             \E j \in inR :
               /\ ObjOf(sc, j) = o
               /\ AttrOf(sc, j) = a
               /\ ValOf(sc, j) = diction[o][a]
        /\ Len(fl) = Cardinality(inR)
        /\ \A pr \in Range(fl) : \E j \in inR : pr = <<ObjOf(sc, j), AttrOf(sc, j)>>

\* a file whose assignment after the end marker repeats the text of its one
\* in-region assignment line
C1_Witness ==
  /\ pc = "struct"
  /\ LET sc == Scan(agcLineList) IN
       \E j \in InRegionAssignments(sc) : \E k \in OutOfRegionAssignments(sc) :
         k > j /\ agcLineList[k] = agcLineList[j]
  /\ Len(Flatten(structuralList)) = 1
  /\ Cardinality(DictKeys(diction)) = 1

(***************************************************************************)
(* C2 - as stated: the rewriter is not gated by the region flag; after a   *)
(* completed call every assignment line whose key is found in the mapping  *)
(* is the canonically formatted line, inside or outside the region.        *)
(***************************************************************************)
C2_Original_NotGated ==
  (pc = "updated" /\ raised = "none") =>
    LET sc == Scan(before) IN
      \A j \in 1..Len(before) :
        (IsAssignment(sc, j) /\ Covers(agcDictionary, sc, j))
          => agcLineList[j] = RewrittenLine(agcDictionary, sc, j)

(***************************************************************************)
(* C2 - amended: the rewriter is gated by the region flag; after a         *)
(* completed call every in-region assignment line whose key is found is    *)
(* the canonically formatted line, and every assignment line outside the   *)
(* region is unchanged, also when its key is found.                        *)
(***************************************************************************)
C2_Gated ==
  (pc = "updated" /\ raised = "none") =>
    LET sc == Scan(before) IN
      /\ \A j \in InRegionAssignments(sc) :
           Covers(agcDictionary, sc, j)
             => agcLineList[j] = RewrittenLine(agcDictionary, sc, j)
      /\ \A j \in OutOfRegionAssignments(sc) : agcLineList[j] = before[j]

\* a completed call on a file with a rewritten in-region line and, outside
\* the region, a non-canonical assignment line whose key the mapping has
C2_Witness ==
  /\ pc = "updated"
  /\ raised = "none"
  /\ LET sc == Scan(before) IN
       /\ \E j \in InRegionAssignments(sc) : agcLineList[j] # before[j]
       /\ \E j \in OutOfRegionAssignments(sc) :
            /\ Covers(agcDictionary, sc, j)
            /\ before[j] # RewrittenLine(agcDictionary, sc, j)

(***************************************************************************)
(* C3 - Strict rewrite: when a processed assignment line has a key missing *)
(* from the mapping, the call fails at the first such line, with           *)
(* AgcObjException when the object is absent and AgcAttrException when     *)
(* only the attribute is; every earlier processed assignment line is       *)
(* rewritten, the failing line and every later line are unchanged.         *)
(***************************************************************************)
C3_StrictRewrite ==
  (pc = "updated" /\ bCompleteness) =>
    LET sc      == Scan(before)
        missing == MissingLines(agcDictionary, sc)
    IN  missing # {} =>
          LET f == Min(missing) IN
            /\ raised = IF ObjOf(sc, f) \notin DOMAIN agcDictionary
                        THEN "AgcObjException" ELSE "AgcAttrException"
            /\ Len(agcLineList) = Len(before)
            /\ \A j \in InRegionAssignments(sc) :
                 j < f => agcLineList[j] = RewrittenLine(agcDictionary, sc, j)
            /\ \A j \in f..Len(before) : agcLineList[j] = before[j]

(***************************************************************************)
(* C4 - Relaxed rewrite: the call completes without raising, keeps the     *)
(* length of the sequence, and leaves unchanged every line that is not an  *)
(* assignment and every assignment line whose object or attribute is       *)
(* missing from the mapping.                                               *)
(***************************************************************************)
C4_RelaxedRewrite ==
  (pc = "updated" /\ ~bCompleteness) =>
    LET sc == Scan(before) IN
      /\ raised = "none"
      /\ Len(agcLineList) = Len(before)
      /\ \A j \in 1..Len(before) :
           (~IsAssignment(sc, j) \/ ~Covers(agcDictionary, sc, j))
             => agcLineList[j] = before[j]

(***************************************************************************)
(* C5 - as stated: after a rewrite with the unmodified mapping, each       *)
(* assignment line covered by the mapping is the canonical line carrying   *)
(* that same line's original object, attribute and value.                  *)
(***************************************************************************)
C5_Original_OwnValue ==
  (pc = "updated" /\ nCalls = 1 /\ agcDictionary = diction) =>
    LET sc == Scan(before) IN
      \A j \in 1..Len(before) :
        (IsAssignment(sc, j) /\ Covers(diction, sc, j))
          => agcLineList[j] = CanonicalLine(ObjOf(sc, j), AttrOf(sc, j), ValOf(sc, j))

(***************************************************************************)
(* C5 - amended: after a rewrite with the unmodified mapping, the call     *)
(* has not raised, each in-region assignment line is the canonical line    *)
(* with its own object and attribute and the value of the last in-region   *)
(* assignment line of that key, whatever its terminator was; every other   *)
(* line is unchanged; and a second identical rewrite changes no line.      *)
(***************************************************************************)
C5_UnmodifiedMapping ==
  (pc = "updated" /\ agcDictionary = diction) =>
    /\ raised = "none"
    /\ nCalls = 1 =>
         LET sc  == Scan(before)
             inR == InRegionAssignments(sc)
         IN  /\ \A j \in inR :
                  agcLineList[j] =
                    CanonicalLine(ObjOf(sc, j), AttrOf(sc, j),
                                  LastValue(sc, ObjOf(sc, j), AttrOf(sc, j)))
             /\ \A j \in 1..Len(before) : j \notin inR => agcLineList[j] = before[j]
    /\ nCalls >= 2 => agcLineList = before

\* the second rewrite with the unmodified mapping of a file in which the
\* first one rewrote a line that ended with a carriage return
C5_Witness ==
  /\ pc = "updated"
  /\ agcDictionary = diction
  /\ nCalls = 2
  /\ \E j \in InRegionAssignments(Scan(before)) :
       /\ before[j] \notin AgcLines
       /\ before[j] = CanonicalLine("COMMISS", "!Text", <<"HIGH", "\"", "MAINS">>)

(***************************************************************************)
(* C7 - Dictionary/listing agreement: the keys of the mapping are the      *)
(* (object, attribute) pairs of the flattened listing, and the value of    *)
(* each key is the value of the last in-region assignment line with that   *)
(* object and attribute.                                                   *)
(***************************************************************************)
C7_DictListingAgreement ==
  Built =>
    LET sc == Scan(agcLineList) IN
      /\ DictKeys(diction) = Range(Flatten(structuralList))
      /\ \A pr \in DictKeys(diction) :
           diction[pr[1]][pr[2]] = LastValue(sc, pr[1], pr[2])

\* a file that assigns one key twice with different values, and two objects
C7_Witness ==
  /\ pc = "struct"
  /\ Len(Flatten(structuralList)) > Cardinality(DictKeys(diction))
  /\ LET sc == Scan(agcLineList) IN
       \E j, k \in InRegionAssignments(sc) :
         /\ j < k
         /\ ObjOf(sc, j) = ObjOf(sc, k)
         /\ AttrOf(sc, j) = AttrOf(sc, k)
         /\ ValOf(sc, j) # ValOf(sc, k)
  /\ Cardinality(DOMAIN diction) = 2

(***************************************************************************)
(* C10 - Structural listing shape: the listing is the run grouping by      *)
(* object of the in-region assignment lines: flattened it is their         *)
(* (object, attribute) sequence in line order, duplicates kept; no two     *)
(* adjacent entries have the same object; no entry is empty.               *)
(***************************************************************************)
C10_ListingShape ==
  Built =>
    /\ Flatten(structuralList) = RegionPairs(Scan(agcLineList), 1)
    /\ \A e \in 1..Len(structuralList) : Len(structuralList[e][2]) >= 1
    /\ \A e \in 1..(Len(structuralList) - 1) :
         structuralList[e][1] # structuralList[e + 1][1]

\* an object that reappears after another one, or a run that goes on
\* across a line that is no assignment
C10_Witness ==
  /\ pc = "struct"
  /\ Len(agcLineList) > MaxLines - 1
  /\ \/ /\ Len(structuralList) = 3
        /\ structuralList[1][1] = structuralList[3][1]
     \/ /\ Len(structuralList) = 1
        /\ Len(structuralList[1][2]) = 2
        /\ \E j \in 1..Len(agcLineList) : agcLineList[j] = LineMalformed

RECURSIVE Pow(_, _)
Pow(b, e) == IF e = 0 THEN 1 ELSE b * Pow(b, e - 1)

\* the number a text of hexadecimal digits denotes, digit by position
HexNumber(text) ==
  LET term[j \in 0..Len(text)] ==
        IF j = 0 THEN 0
        ELSE term[j - 1] + DigitValue(text[j]) * Pow(16, Len(text) - j)
  IN  term[Len(text)]

IsHexText(text) == text # <<>> /\ \A j \in 1..Len(text) : IsHexDigit(text[j])

BitSet(m, k) == (m \div Pow(2, k)) % 2 = 1

HasEventEnable == HasKey(gcauCfgDict, OBJ_NAME, OBJ_ATTR)

C9_LoopReachesZero ==
  [][(epc = "loop" /\ epc' = "loop") => mask' # mask]_vars

RECURSIVE Combined(_, _)
Combined(h, ident) ==
  IF h = <<>> THEN <<>>
  ELSE IF h[Len(h)][1] = ident
  THEN Append(Combined(SubSeq(h, 1, Len(h) - 1), ident), h[Len(h)][2])
  ELSE Combined(SubSeq(h, 1, Len(h) - 1), ident)

\* the increments s[1] + s[2] + ... of a non-empty sequence, left to right
RECURSIVE Total(_)
Total(s) ==
  IF Len(s) = 1 THEN s[1]
  ELSE IF kind = "int" THEN Total(SubSeq(s, 1, Len(s) - 1)) + s[Len(s)]
  ELSE Total(SubSeq(s, 1, Len(s) - 1)) \o s[Len(s)]

RECURSIVE Without(_, _)
Without(oc, ident) ==
  IF oc = <<>> THEN <<>>
  ELSE IF oc[1][1] = ident THEN Without(Tail(oc), ident)
  ELSE <<oc[1]>> \o Without(Tail(oc), ident)

(***************************************************************************)
(* C8 - Ordered multi-counter invariant: the list is strictly ascending    *)
(* by identity, holds exactly the identities passed so far, each with the  *)
(* combination in call order of the increments passed for it; a call       *)
(* leaves every entry of another identity, and their order, unchanged.     *)
(***************************************************************************)
C8_OrderedMultiCounter ==
  /\ \A j \in 1..(Len(orderedCounter) - 1) : orderedCounter[j][1] < orderedCounter[j + 1][1]
  /\ {orderedCounter[j][1] : j \in 1..Len(orderedCounter)}
       = {history[j][1] : j \in 1..Len(history)}
  /\ \A j \in 1..Len(orderedCounter) :
       orderedCounter[j][2] = Total(Combined(history, orderedCounter[j][1]))
  /\ history # <<>> =>
       Without(orderedCounter, history[Len(history)][1])
         = Without(prevCounter, history[Len(history)][1])

\* string counts: an identity incremented twice, then a smaller identity
\* inserted before it and a greater one appended behind it
C8_Witness ==
  /\ kind = "str"
  /\ Len(history) = MaxIncrements
  /\ orderedCounter = <<<<1, <<"K">>>>, <<3, <<"C", "K">>>>, <<4, <<"C">>>>>>
  /\ prevCounter = <<<<1, <<"K">>>>, <<3, <<"C", "K">>>>>>

====
